---- MODULE Spec2Model ----
(***************************************************************************)
(* JitStreamer-EB: the heartbeat orchestrator (src/heartbeat.rs), the      *)
(* request handlers that talk to it (src/main.rs) and the two SQLite       *)
(* backed queues (src/debug_server.rs, src/mount.rs).                      *)
(*                                                                         *)
(* SpecHB     is the heartbeat side: requests, mailbox, orchestrator and   *)
(*            loops; SpecHBFair adds the fairness of the scheduler.        *)
(* SpecQ      is the queue store: add_to_queue, get_queue_info, workers.   *)
(* SpecApp    is the launch_app handler over the queues and orchestrator.  *)
(* SpecLoop   is the keep-alive task, await by await.                      *)
(* SpecTunnel is tunneld::wait_for_connection (src/tunneld.rs).            *)
(* SpecMux    is netmuxd::add_device (src/netmuxd.rs).                     *)
(* SpecStatus is the status handler (src/main.rs) over the two queues.     *)
(* SpecReg    is register (src/register.rs) and the devices table.         *)
(* SpecVersion is the version handler (src/main.rs).                       *)
(***************************************************************************)
EXTENDS Integers, Sequences, FiniteSets, TLC

(***************************************************************************)
(* Bounds of the model.                                                    *)
(***************************************************************************)
\* number of HTTP requests (launch_app / get_apps) that are ever served
MaxReq == 3

\* number of launch_app requests that are followed through the handler
MaxLaunch == 2

\* messages that wait in the orchestrator's channel at once
MaxMail == 2

\* capacity of the orchestrator's mpsc channel, heartbeat.rs:23: a send
\* waits while the channel is full
ChannelCap == 100

MailLimit == IF MaxMail < ChannelCap THEN MaxMail ELSE ChannelCap

Devices == {"D1", "D2"}

Reqs == 1..MaxReq
\* a oneshot::Sender is identified by the request that created it
NoHandle == 0
\* the udid of a handler or task that is not running
NoDevice == "-"

(***************************************************************************)
(* State of the heartbeat side.                                            *)
(*   req      per request: position in the handler ("idle", "hb": loop     *)
(*            spawned, "run": Store sent, "done") and the udid it holds    *)
(*            while it runs                                                *)
(*   mailbox  the mpsc channel of SendRequest messages                     *)
(*   cache    the orchestrator's HashMap udid -> oneshot::Sender           *)
(*   hstate   per oneshot::Sender: "none" (not created), "held" (exists,   *)
(*            nothing sent), "sent" (consumed by send(()))                 *)
(*   loop     per keep-alive task: "none", "running", "exited", and the    *)
(*            device its HeartbeatClient talks to while it runs            *)
(*   orch     the orchestrator task: "running" or "stopped"                *)
(*   last     history: the message the orchestrator processed last, the    *)
(*            value HashMap::insert / remove returned (old) and what       *)
(*            send(()) on it returned (result)                             *)
(***************************************************************************)
VARIABLES req, mailbox, cache, hstate, loop, orch, last

hbvars == <<req, mailbox, cache, hstate, loop, orch, last>>

(***************************************************************************)
(* State of the queue store (the tables of jitstreamer.db).                *)
(*   queue        per queue kind, the rows of launch_queue / mount_queue   *)
(*   nextOrdinal  per queue kind, the storage's ordinal sequence           *)
(*   ret          the last queue call made on its own or by main(): its    *)
(*                arguments and what it returned                           *)
(*   enqLog       history: per kind, the ordinals of the rows inserted by  *)
(*                add_to_queue, in call order                              *)
(*   phase        where main() is: "boot" (before the queues are emptied), *)
(*                "mount_emptied" or "mount_stale" (mount::empty returned, *)
(*                having deleted or having failed to open the database),   *)
(*                "serving" (axum::serve runs), "down"                     *)
(***************************************************************************)
VARIABLES queue, nextOrdinal, ret, enqLog, phase

qvars == <<queue, nextOrdinal, ret, enqLog, phase>>

(***************************************************************************)
(* History of the launch_app requests.                                     *)
(*   app   per request: the response it returned ("none" while it runs)    *)
(*         and the messages it sent to the orchestrator, in order          *)
(***************************************************************************)
VARIABLES app

(***************************************************************************)
(* Fine-grained state, used where a claim needs the single awaits.         *)
(*   rounds  per keep-alive task: where it is in its round ("marco",       *)
(*           "polo", "check", "end") and, as history, how many rounds it   *)
(*           completed after its handle was signaled (late)                *)
(*   tun     the one call of tunneld::wait_for_connection that is          *)
(*           followed: its argument, the loop bound it computed, the       *)
(*           polls it made, the answers of tunneld to them, and its result *)
(*   mux     the call of netmuxd::add_device that is followed: its         *)
(*           position, what the response was and the step that failed      *)
(*   st      the status requests: position in the handler, the answer      *)
(*           kept in to_return, the seconds since start_time, the polls    *)
(*           made and the response                                         *)
(*   reg     the register requests and the devices table: the number of    *)
(*           records per udid, where each request is, what it answered     *)
(*           and whether its insert task has run                           *)
(*   ver     the version request that is followed: its string, split at   *)
(*           the dots, and the answer                                      *)
(***************************************************************************)
VARIABLES rounds, tun, mux, st, reg, ver

xvars == <<rounds, tun, mux, st, reg, ver>>

vars == <<hbvars, qvars, app, xvars>>

(***************************************************************************)
(* The orchestrator's message handling, heartbeat.rs:26-38.                *)
(***************************************************************************)
\* HashMap::insert(udid, handle): the map afterwards
CacheInsert_keep(c, udid, handle) == IF c[udid] # NoHandle THEN c ELSE [c EXCEPT ![udid] = handle]
CacheInsert(c, udid, handle) == [c EXCEPT ![udid] = handle]

\* HashMap::remove(&udid): the map afterwards
CacheRemove_clear(c, udid) == [d \in Devices |-> NoHandle]
CacheRemove(c, udid) == [c EXCEPT ![udid] = NoHandle]

\* the handles Store signals: `if let Some(old_sender) = cache.insert(..)`
StoreSignals_forget(c, udid) == {}
StoreSignals(c, udid) == IF c[udid] # NoHandle THEN {c[udid]} ELSE {}

\* the handles Kill signals: `if let Some(old_sender) = cache.remove(..)`
KillSignals(c, udid) == IF c[udid] # NoHandle THEN {c[udid]} ELSE {}

\* oneshot::Sender::send(()): Err when the receiver was dropped, which is
\* when the loop task that owned it has exited; `.ok()` discards the result
SendResult(lp, H) ==
    IF H = {} THEN "none"
    ELSE IF \E h \in H : lp[h].st = "exited" THEN "Err" ELSE "Ok"

\* send(self, ()) consumes the sender whatever it returns
Signal(hs, H) == [h \in Reqs |-> IF h \in H THEN "sent" ELSE hs[h]]

\* Receiver::try_recv() in the running loop, heartbeat.rs:85-89: a send that
\* found the receiver alive has left a value.  The sender is never dropped
\* unsent (it always travels in a Store message), so Closed is not an outcome.
TryRecv_empty(hs, h) == "Empty"
TryRecv(hs, h) == IF hs[h] = "sent" THEN "Ok" ELSE "Empty"

(***************************************************************************)
(* Init of the heartbeat side: main() has called heartbeat::heartbeat().   *)
(***************************************************************************)
NoMsg == [kind |-> "none", udid |-> NoDevice, old |-> NoHandle, result |-> "none"]

NoTask == [st |-> "none", udid |-> NoDevice]
Exited_retry == [st |-> "running", udid |-> NoDevice]
Exited == [st |-> "exited", udid |-> NoDevice]

InitHBVars ==
    /\ req = [r \in Reqs |-> [pc |-> "idle", udid |-> NoDevice]]
    /\ mailbox = <<>>
    /\ cache = [d \in Devices |-> NoHandle]
    /\ hstate = [h \in Reqs |-> "none"]
    /\ loop = [h \in Reqs |-> NoTask]
    /\ orch = "running"
    /\ last = NoMsg

(***************************************************************************)
(* Request handlers get_apps and launch_app, main.rs.  Both do the same    *)
(* towards the heartbeat: heartbeat_thread, Store, then either an early    *)
(* return or Kill.  Requests are numbered in the order they arrive and     *)
(* devices in the order they are first used.                               *)
(***************************************************************************)
CanStart(r, d) ==
    /\ req[r].pc = "idle"
    /\ IF r = 1 THEN d = "D1" ELSE req[r - 1].pc # "idle"

\* heartbeat::heartbeat_thread(udid, ip, pairing_file), heartbeat.rs:44-93,
\* called at main.rs:231 and main.rs:553: on Ok the loop task is spawned and
\* its oneshot::Sender returned; on Err the handler answers with a failure.
heartbeat_thread(r, d, ok) ==
    /\ CanStart(r, d)
    /\ IF ok
       THEN /\ req' = [req EXCEPT ![r] = [pc |-> "hb", udid |-> d]]
            /\ hstate' = [hstate EXCEPT ![r] = "held"]
            /\ loop' = [loop EXCEPT ![r] = [st |-> "running", udid |-> d]]
       ELSE /\ req' = [req EXCEPT ![r].pc = "done"]
            /\ UNCHANGED <<hstate, loop>>
    /\ UNCHANGED <<mailbox, cache, orch, last>>
    /\ UNCHANGED <<qvars, app, xvars>>

\* state.send(SendRequest::Store((udid, s))).await, main.rs:233-236, 555-558
send_Store(r) ==
    /\ req[r].pc = "hb"
    /\ Len(mailbox) < MailLimit
    /\ mailbox' = Append(mailbox, [kind |-> "Store", udid |-> req[r].udid, handle |-> r])
    /\ req' = [req EXCEPT ![r].pc = "run"]
    /\ UNCHANGED <<cache, hstate, loop, orch, last>>
    /\ UNCHANGED <<qvars, app, xvars>>

\* an early return after the Store: a device step failed (main.rs:264-367,
\* 574-661) or launch_app found no developer image and queued a mount
\* (main.rs:676-688).  No Kill is sent.
return_early(r) ==
    /\ req[r].pc = "run"
    /\ req' = [req EXCEPT ![r] = [pc |-> "done", udid |-> NoDevice]]
    /\ UNCHANGED <<mailbox, cache, hstate, loop, orch, last>>
    /\ UNCHANGED <<qvars, app, xvars>>

\* state.send(SendRequest::Kill(udid)).await on the successful path,
\* main.rs:369-372 and main.rs:690-693
send_Kill(r) ==
    /\ req[r].pc = "run"
    /\ Len(mailbox) < MailLimit
    /\ mailbox' = Append(mailbox, [kind |-> "Kill", udid |-> req[r].udid, handle |-> NoHandle])
    /\ req' = [req EXCEPT ![r] = [pc |-> "done", udid |-> NoDevice]]
    /\ UNCHANGED <<cache, hstate, loop, orch, last>>
    /\ UNCHANGED <<qvars, app, xvars>>

(***************************************************************************)
(* The orchestrator task, heartbeat.rs:24-40: one message per step.        *)
(***************************************************************************)
\* the message the task takes is the one `recv()` yields: the oldest
heartbeat_Store_last ==
    /\ orch = "running"
    /\ mailbox # <<>>
    /\ mailbox[Len(mailbox)].kind = "Store"
    /\ LET msg == mailbox[Len(mailbox)]
       IN /\ cache' = CacheInsert(cache, msg.udid, msg.handle)
          /\ hstate' = Signal(hstate, StoreSignals(cache, msg.udid))
          /\ last' = [kind |-> "Store", udid |-> msg.udid, old |-> cache[msg.udid],
                       result |-> SendResult(loop, StoreSignals(cache, msg.udid))]
    /\ mailbox' = SubSeq(mailbox, 1, Len(mailbox) - 1)
    /\ UNCHANGED <<req, loop, orch>>
    /\ UNCHANGED <<qvars, app, xvars>>
heartbeat_Store ==
    /\ orch = "running"
    /\ mailbox # <<>>
    /\ Head(mailbox).kind = "Store"
    /\ LET msg == Head(mailbox)
       IN /\ cache' = CacheInsert(cache, msg.udid, msg.handle)
          /\ hstate' = Signal(hstate, StoreSignals(cache, msg.udid))
          /\ last' = [kind |-> "Store", udid |-> msg.udid, old |-> cache[msg.udid],
                       result |-> SendResult(loop, StoreSignals(cache, msg.udid))]
    /\ mailbox' = Tail(mailbox)
    /\ UNCHANGED <<req, loop, orch>>
    /\ UNCHANGED <<qvars, app, xvars>>

heartbeat_Kill ==
    /\ orch = "running"
    /\ mailbox # <<>>
    /\ Head(mailbox).kind = "Kill"
    /\ LET msg == Head(mailbox)
       IN /\ cache' = CacheRemove(cache, msg.udid)
          /\ hstate' = Signal(hstate, KillSignals(cache, msg.udid))
          /\ last' = [kind |-> "Kill", udid |-> msg.udid, old |-> cache[msg.udid],
                       result |-> SendResult(loop, KillSignals(cache, msg.udid))]
    /\ mailbox' = Tail(mailbox)
    /\ UNCHANGED <<req, loop, orch>>
    /\ UNCHANGED <<qvars, app, xvars>>

(***************************************************************************)
(* The keep-alive loop task, heartbeat.rs:75-91: one round per step.       *)
(***************************************************************************)
\* get_marco and send_polo succeed, then try_recv decides
loop_round(h) ==
    /\ loop[h].st = "running"
    /\ loop' = [loop EXCEPT ![h] = IF TryRecv(hstate, h) = "Ok" THEN Exited ELSE @]
    /\ UNCHANGED <<req, mailbox, cache, hstate, orch, last>>
    /\ UNCHANGED <<qvars, app, xvars>>

\* get_marco or send_polo fails: break
loop_error(h) ==
    /\ loop[h].st = "running"
    /\ loop' = [loop EXCEPT ![h] = Exited]
    /\ UNCHANGED <<req, mailbox, cache, hstate, orch, last>>
    /\ UNCHANGED <<qvars, app, xvars>>

(***************************************************************************)
(* The queue store.  A row is [udid, status, error, ordinal]; status is    *)
(* 0 pending, 1 in progress, 2 error.  The ip and bundle_id columns are    *)
(* written but never read by the server and are left out.                  *)
(***************************************************************************)
Kinds == {"Launch", "Mount"}
Msgs == {"E1"}

\* rows that are ever inserted, over both kinds
MaxEnq == 3

\* `let mut tries = 5`, debug_server.rs:110
Tries == 5

\* consecutive "database is locked" answers the storage gives one call:
\* fewer than the loop has tries, as many, or one more, which also fails the
\* statement after the loop
MaxBusy == Tries + 1

\* what can go wrong in a call besides a locked database: sqlite::open fails,
\* prepare fails, or one of the statements of get_queue_info fails to step
Faults == {"none", "open", "prepare", "select", "error", "delete", "count"}
AddFaults == {"none", "open", "prepare"}

RowsOf(rows, udid) == {r \in rows : r.udid = udid}

\* `SELECT ordinal, status FROM .. WHERE udid = ?` followed by one next():
\* the first row of the scan, which is the one with the smallest ordinal
FirstRow(rows, udid) ==
    CHOOSE r \in RowsOf(rows, udid) : \A o \in RowsOf(rows, udid) : r.ordinal <= o.ordinal

\* `SELECT COUNT(*) FROM .. WHERE ordinal < ? AND status = 0`
CountPendingBefore_all(rows, ord) == Cardinality({r \in rows : r.status = 0})
CountPendingBefore_le(rows, ord) == Cardinality({r \in rows : r.ordinal <= ord /\ r.status = 0})
CountPendingBefore(rows, ord) == Cardinality({r \in rows : r.ordinal < ord /\ r.status = 0})

\* `DELETE FROM .. WHERE ordinal = ?`
DeleteOrdinal_upto(rows, ord) == {r \in rows : r.ordinal > ord}
DeleteOrdinal_keep(rows, ord) == rows
DeleteOrdinal(rows, ord) == {r \in rows : r.ordinal # ord}

\* the ordinal the storage gives a row inserted without one (schema in
\* sql/up.sql): the next value of a sequence that never goes back
AssignOrdinal(rows, next) == next

\* `INSERT INTO launch_queue (udid, ip, bundle_id, status) VALUES (?, ?, ?, 0)`:
\* the statement names no ordinal, the storage assigns it
LaunchOrdinal_count(rows, next) == Cardinality(rows) + 1
LaunchOrdinal(rows, next) == AssignOrdinal(rows, next)

LaunchInsert(rows, ord, udid) ==
    rows \cup {[udid |-> udid, status |-> 0, error |-> "", ordinal |-> ord]}

\* `INSERT INTO mount_queue (udid, ip, status) VALUES (?, ?, 0)`
MountOrdinal_max(rows, next) ==
    IF rows = {} THEN 1 ELSE 1 + (CHOOSE m \in {r.ordinal : r \in rows} : \A r \in rows : r.ordinal <= m)
MountOrdinal(rows, next) == AssignOrdinal(rows, next)

MountInsert_drop(rows, ord, udid) == rows
MountInsert(rows, ord, udid) ==
    rows \cup {[udid |-> udid, status |-> 0, error |-> "", ordinal |-> ord]}

Answer(tag, pos, msg, rows) == [tag |-> tag, pos |-> pos, msg |-> msg, rows |-> rows]

\* debug_server::get_queue_info, debug_server.rs:24-89
LaunchQueueInfo(rows, udid, fault) ==
    IF fault = "open" THEN Answer("ServerError", 0, "", rows)
    ELSE IF fault = "prepare" THEN Answer("panic", 0, "", rows)
    ELSE IF fault = "select" \/ RowsOf(rows, udid) = {} THEN Answer("NotInQueue", 0, "", rows)
    ELSE LET row == FirstRow(rows, udid)
         IN IF row.status = 1 THEN Answer("Position", 0, "", rows)
            ELSE IF row.status = 2
                 THEN Answer("Error", 0,
                             IF fault = "error" THEN "Unknown error" ELSE row.error,
                             IF fault = "delete" THEN rows ELSE DeleteOrdinal(rows, row.ordinal))
            ELSE IF fault = "count" THEN Answer("ServerError", 0, "", rows)
            ELSE Answer("Position", CountPendingBefore(rows, row.ordinal), "", rows)

\* mount::get_queue_info, mount.rs:22-111
MountQueueInfo(rows, udid, fault) ==
    IF fault = "open" THEN Answer("ServerError", 0, "", rows)
    ELSE IF fault = "prepare" THEN Answer("ServerError", 0, "", rows)
    ELSE IF fault = "select" \/ RowsOf(rows, udid) = {} THEN Answer("NotInQueue", 0, "", rows)
    ELSE LET row == FirstRow(rows, udid)
         IN IF row.status = 1 THEN Answer("InProgress", 0, "", rows)
            ELSE IF row.status = 2
                 THEN Answer("Error", 0,
                             IF fault = "error" THEN "Unknown error" ELSE row.error,
                             IF fault = "delete" THEN rows ELSE DeleteOrdinal(rows, row.ordinal))
            ELSE IF fault = "count" THEN Answer("ServerError", 0, "", rows)
            ELSE Answer("Position", CountPendingBefore(rows, row.ordinal), "", rows)

QueueInfo(k, rows, udid, fault) ==
    IF k = "Launch" THEN LaunchQueueInfo(rows, udid, fault) ELSE MountQueueInfo(rows, udid, fault)

\* the retry loop of debug_server::add_to_queue, debug_server.rs:110-122.
\* `busy` is the number of Err answers still to come; the result says
\* whether the row went in, how many times next() was called and whether
\* the loop returned None itself.
RECURSIVE InsertLoop(_, _, _)
InsertLoop(tries, busy, attempts) ==
    IF tries > 0
    THEN IF busy > 0
         THEN IF tries = 0
              THEN [inserted |-> FALSE, attempts |-> attempts + 1, returned |-> TRUE]
              ELSE InsertLoop(tries - 1, busy - 1, attempts + 1)
         ELSE [inserted |-> TRUE, attempts |-> attempts + 1, returned |-> FALSE]
    ELSE [inserted |-> FALSE, attempts |-> attempts, returned |-> FALSE]

\* the position query that ends debug_server::add_to_queue,
\* debug_server.rs:124-132: the inner SELECT yields the ordinal of the first
\* row of udid, or NULL, and nothing is smaller than NULL
PositionOf(rows, udid) ==
    IF RowsOf(rows, udid) = {} THEN 0
    ELSE CountPendingBefore(rows, FirstRow(rows, udid).ordinal)

Added(tag, pos, ord, attempts, rows) ==
    [tag |-> tag, pos |-> pos, ord |-> ord, attempts |-> attempts, rows |-> rows]

\* debug_server::add_to_queue, debug_server.rs:91-136
LaunchAdd(rows, next, udid, fault, busy) ==
    IF fault = "open" THEN Added("None", 0, 0, 0, rows)
    ELSE IF fault = "prepare" THEN Added("panic", 0, 0, 0, rows)
    ELSE LET lp == InsertLoop(Tries, busy, 0)
             ord == IF lp.inserted THEN LaunchOrdinal(rows, next) ELSE 0
             after == IF lp.inserted THEN LaunchInsert(rows, ord, udid) ELSE rows
             left == busy - (IF lp.inserted THEN lp.attempts - 1 ELSE lp.attempts)
         IN IF lp.returned THEN Added("None", 0, 0, lp.attempts, rows)
            ELSE IF left > 0 THEN Added("None", 0, ord, lp.attempts, after)
            ELSE Added("Some", PositionOf(after, udid), ord, lp.attempts, after)

\* mount::add_to_queue, mount.rs:113-139: one next(), unwrapped
MountAdd(rows, next, udid, fault, busy) ==
    IF fault = "open" THEN Added("unit", 0, 0, 0, rows)
    ELSE IF fault = "prepare" THEN Added("unit", 0, 0, 0, rows)
    ELSE IF busy > 0 THEN Added("panic", 0, 0, 1, rows)
    ELSE LET ord == MountOrdinal(rows, next)
         IN Added("unit", 0, ord, 1, MountInsert(rows, ord, udid))

QueueAdd(k, rows, next, udid, fault, busy) ==
    IF k = "Launch" THEN LaunchAdd(rows, next, udid, fault, busy)
    ELSE MountAdd(rows, next, udid, fault, busy)

NoCall ==
    [op |-> "none", kind |-> "Launch", udid |-> "D1", fault |-> "none", busy |-> 0,
     tag |-> "none", pos |-> 0, msg |-> "", ord |-> 0, attempts |-> 0]

InitQVars ==
    /\ queue = [k \in Kinds |-> {}]
    /\ nextOrdinal = [k \in Kinds |-> 1]
    /\ ret = NoCall
    /\ enqLog = [k \in Kinds |-> <<>>]
    /\ phase = "boot"

Enqueues == Len(enqLog["Launch"]) + Len(enqLog["Mount"])

(***************************************************************************)
(* Queue calls.  Each runs in one spawn_blocking closure on its own        *)
(* connection.                                                             *)
(***************************************************************************)
\* what an add_to_queue call with result a does to the tables of kind k
Enqueue(k, a) ==
    /\ queue' = [queue EXCEPT ![k] = a.rows]
    /\ nextOrdinal' = [nextOrdinal EXCEPT ![k] = IF a.ord # 0 THEN @ + 1 ELSE @]
    /\ enqLog' = [enqLog EXCEPT ![k] = IF a.ord # 0 THEN Append(@, a.ord) ELSE @]

\* an add_to_queue call taken on its own
AddStep(k, udid, fault, busy) ==
    /\ phase = "serving"
    /\ Enqueues < MaxEnq
    /\ fault # "none" => busy = 0
    /\ LET a == QueueAdd(k, queue[k], nextOrdinal[k], udid, fault, busy)
       IN /\ Enqueue(k, a)
          /\ ret' = [op |-> "add_to_queue", kind |-> k, udid |-> udid, fault |-> fault,
                     busy |-> busy, tag |-> a.tag, pos |-> a.pos, msg |-> "",
                     ord |-> a.ord, attempts |-> a.attempts]
    /\ UNCHANGED phase
    /\ UNCHANGED <<hbvars, app, xvars>>

\* a statement can only fail where get_queue_info executes it
FaultApplies(rows, udid, fault) ==
    \/ fault \in {"none", "open", "prepare", "select"}
    \/ /\ fault \in {"error", "delete"}
       /\ RowsOf(rows, udid) # {}
       /\ FirstRow(rows, udid).status = 2
    \/ /\ fault = "count"
       /\ RowsOf(rows, udid) # {}
       /\ FirstRow(rows, udid).status = 0

\* a get_queue_info call taken on its own
InfoStep(k, udid, fault) ==
    /\ phase = "serving"
    /\ FaultApplies(queue[k], udid, fault)
    /\ LET a == QueueInfo(k, queue[k], udid, fault)
       IN /\ queue' = [queue EXCEPT ![k] = a.rows]
          /\ ret' = [op |-> "get_queue_info", kind |-> k, udid |-> udid, fault |-> fault,
                     busy |-> 0, tag |-> a.tag, pos |-> a.pos, msg |-> a.msg,
                     ord |-> 0, attempts |-> 0]
    /\ UNCHANGED <<nextOrdinal, enqLog, phase>>
    /\ UNCHANGED <<hbvars, app, xvars>>

\* debug_server::add_to_queue(udid, ip, bundle_id), called at main.rs:696
debug_server_add_to_queue(udid, fault, busy) == AddStep("Launch", udid, fault, busy)

\* mount::add_to_queue(udid, ip), called at main.rs:678
mount_add_to_queue(udid, fault, busy) == AddStep("Mount", udid, fault, busy)

\* debug_server::get_queue_info(udid), called at main.rs:465 and main.rs:791
debug_server_get_queue_info(udid, fault) == InfoStep("Launch", udid, fault)

\* mount::get_queue_info(udid), called at main.rs:497 and main.rs:823
mount_get_queue_info(udid, fault) == InfoStep("Mount", udid, fault)

(***************************************************************************)
(* The external workers (src/runners/mount.py, src/runners/launch.py):     *)
(* they take the oldest pending row, and finish it or record an error.     *)
(* main() starts them after it has emptied the queues, main.rs:72-74.      *)
(***************************************************************************)
SetRow(rows, ord, status, error) ==
    {IF r.ordinal = ord THEN [r EXCEPT !.status = status, !.error = error] ELSE r : r \in rows}

worker_take(k) ==
    /\ phase = "serving"
    /\ \E r \in queue[k] :
          /\ r.status = 0
          /\ \A o \in queue[k] : o.status = 0 => r.ordinal <= o.ordinal
          /\ queue' = [queue EXCEPT ![k] = SetRow(@, r.ordinal, 1, "")]
    /\ UNCHANGED <<nextOrdinal, ret, enqLog, phase>>
    /\ UNCHANGED <<hbvars, app, xvars>>

worker_error(k, m) ==
    /\ phase = "serving"
    /\ \E r \in queue[k] :
          /\ r.status \in {0, 1}
          /\ queue' = [queue EXCEPT ![k] = SetRow(@, r.ordinal, 2, m)]
    /\ UNCHANGED <<nextOrdinal, ret, enqLog, phase>>
    /\ UNCHANGED <<hbvars, app, xvars>>

worker_done(k) ==
    /\ phase = "serving"
    /\ \E r \in queue[k] :
          /\ r.status = 1
          /\ queue' = [queue EXCEPT ![k] = @ \ {r}]
    /\ UNCHANGED <<nextOrdinal, ret, enqLog, phase>>
    /\ UNCHANGED <<hbvars, app, xvars>>

\* mount::empty / debug_server::empty: `DELETE FROM mount_queue`,
\* `DELETE FROM launch_queue`; the rows left in the table
Empty_pending(rows) == {r \in rows : r.status # 0}
Empty(rows) == {}

\* one empty() call of main(), mount.rs:141-157 and debug_server.rs:138-154:
\* a database that does not open is logged and the call returns, a statement
\* that fails is unwrapped and takes the process down.  For this call
\* ret.pos is the number of rows the DELETE removed.
EmptyStep(k, fault, from, to, failed) ==
    /\ phase \in from
    /\ queue' = [queue EXCEPT ![k] = IF fault = "none" THEN Empty(@) ELSE @]
    /\ phase' = IF fault = "prepare" THEN "down" ELSE IF fault = "open" THEN failed ELSE to
    /\ ret' = [op |-> "empty", kind |-> k, udid |-> NoCall.udid, fault |-> fault,
               busy |-> 0, tag |-> IF fault = "prepare" THEN "panic" ELSE "unit",
               pos |-> IF fault = "none" THEN Cardinality(queue[k]) ELSE 0,
               msg |-> "", ord |-> 0, attempts |-> 0]
    /\ UNCHANGED <<nextOrdinal, enqLog>>
    /\ UNCHANGED <<hbvars, app, xvars>>

\* mount::empty().await, main.rs:66
mount_empty(fault) == EmptyStep("Mount", fault, {"boot"}, "mount_emptied", "mount_stale")

\* debug_server::empty().await, main.rs:67, after which main() goes on to
\* start the runners and to serve
debug_server_empty(fault) ==
    EmptyStep("Launch", fault, {"mount_emptied", "mount_stale"}, "serving", "serving")

\* the process ends and is started again on the same jitstreamer.db
main_restart ==
    /\ phase \in {"serving", "down"}
    /\ phase' = "boot"
    /\ UNCHANGED <<queue, nextOrdinal, ret, enqLog>>
    /\ UNCHANGED <<hbvars, app, xvars>>

(***************************************************************************)
(* The launch_app handler, main.rs:398-712, one await per step.  The pc of *)
(* a request goes "idle", "check_launch", "check_mount", "pairing", "hb",  *)
(* "run", then "mount_add" or "kill" and "add", and "done" at any return.  *)
(***************************************************************************)
\* `return Json(LaunchAppReturn {..})`: the handler ends with a response
\*   "failed"         ok: false
\*   "launch_status"  ok: true, launching: true, from the launch queue check
\*   "mount_status"   ok: true, mounting: true, from the mount queue check
\*   "mounting"       ok: true, mounting: true, after mount::add_to_queue
\*   "launching"      ok: true, launching: true, after debug_server::add_to_queue
\*   "panic"          a spawn_blocking closure panicked and the unwrap of its
\*                    JoinHandle took the handler down: no response
\* and with its error field (the text without the formatted cause; "" for
\* None)
Respond(r, resp, error) ==
    /\ req' = [req EXCEPT ![r] = [pc |-> "done", udid |-> NoDevice]]
    /\ app' = [app EXCEPT ![r].resp = resp, ![r].error = error]

\* the response to a queue status that is not NotInQueue, main.rs:465-535
StatusResponse(k, tag) ==
    IF tag = "panic" THEN "panic"
    ELSE IF tag \in {"Error", "ServerError"} THEN "failed"
    ELSE IF k = "Launch" THEN "launch_status" ELSE "mount_status"

\* the error field of that response, main.rs:465-535
StatusError_none(k, a) == ""
StatusError(k, a) ==
    IF a.tag = "Error" THEN a.msg
    ELSE IF a.tag = "ServerError"
         THEN IF k = "Launch" THEN "Failed to get launch status"
              ELSE "Failed to get mounting status"
    ELSE ""

\* the outcomes of the lookup of the caller's udid, main.rs:407-461 and
\* main.rs:730-784
Lookups == {"found", "open", "prepare", "missing"}

LookupError(outcome) ==
    IF outcome = "open" THEN "Failed to open database: e"
    ELSE IF outcome = "prepare" THEN "Failed to open database"
    ELSE IF outcome = "missing" THEN "No device found in database"
    ELSE ""

\* get_pairing_file and heartbeat_thread, main.rs:537-570: both succeed, or
\* the first fails, or the second
HeartbeatOutcomes == {"ok", "pairing", "heartbeat"}

\* the places where get_apps returns ok: false, main.rs:165-367, and the
\* error field of each
GetAppsFailures ==
    {"open", "prepare", "missing", "pairing", "heartbeat", "lockdownd_session",
     "start_service", "proxy_connect", "proxy_session", "get_apps", "no_apps"}

GetAppsError(failure) ==
    IF failure = "open" THEN "Failed to open database: e"
    ELSE IF failure = "prepare" THEN "Failed to open database"
    ELSE IF failure = "missing" THEN "No device found for IP ip"
    ELSE IF failure = "pairing" THEN "Failed to get pairing file: e"
    ELSE IF failure = "heartbeat" THEN "Failed to heartbeat device: e"
    ELSE IF failure \in {"lockdownd_session", "proxy_session"} THEN "Failed to start session: e"
    ELSE IF failure = "start_service" THEN "Failed to start service: e"
    ELSE IF failure = "proxy_connect" THEN "Failed to connect to installation_proxy: e"
    ELSE IF failure = "get_apps" THEN "Failed to get apps: e"
    ELSE IF failure = "no_apps" THEN "No apps with get-task-allow found"
    ELSE ""

\* the steps on the device, main.rs:572-661, in the order they are taken
DeviceSteps ==
    {"lockdownd_connect", "lockdownd_session", "start_service",
     "mounter_connect", "mounter_session", "copy_devices"}

\* the error field of the response when a step fails, main.rs:547-658
StepError(step) ==
    IF step = "pairing" THEN "Failed to get pairing file: e"
    ELSE IF step = "heartbeat" THEN "Failed to heartbeat device: e"
    ELSE IF step = "lockdownd_connect" THEN "Failed to connect to lockdownd: e"
    ELSE IF step \in {"lockdownd_session", "mounter_session"} THEN "Failed to start session: e"
    ELSE IF step = "start_service" THEN "Failed to start service: e"
    ELSE IF step = "mounter_connect" THEN "Failed to connect to image_mounter: e"
    ELSE IF step = "copy_devices" THEN "Failed to get images: e"
    ELSE ""

\* what the handler of a device finds on it at main.rs:572-674: a step
\* fails, or the image list has no developer image, or it has one
ImageOutcomes == DeviceSteps \cup {"not_mounted", "mounted"}

\* the storage failures a queue check of the handler can meet: none, the
\* database does not open, the SELECT is not prepared, or it fails to step
CheckFaults == {"none", "open", "prepare", "select"}

\* the udid of the caller's ip is looked up in the devices table,
\* main.rs:407-461
launch_app_lookup(r, d, outcome) ==
    /\ phase = "serving"
    /\ r <= MaxLaunch
    /\ CanStart(r, d)
    /\ IF outcome = "found"
       THEN /\ req' = [req EXCEPT ![r] = [pc |-> "check_launch", udid |-> d]]
            /\ app' = app
       ELSE Respond(r, "failed", LookupError(outcome))
    /\ UNCHANGED <<mailbox, cache, hstate, loop, orch, last>>
    /\ UNCHANGED <<qvars, xvars>>

\* debug_server::get_queue_info at main.rs:465 (k = "Launch") and
\* mount::get_queue_info at main.rs:497 (k = "Mount"): anything but
\* NotInQueue is returned to the caller
launch_app_check_through(r, k, fault) ==
    /\ req[r].pc = (IF k = "Launch" THEN "check_launch" ELSE "check_mount")
    /\ req' = [req EXCEPT ![r].pc = IF k = "Launch" THEN "check_mount" ELSE "pairing"]
    /\ UNCHANGED <<mailbox, cache, hstate, loop, orch, last, app>>
    /\ UNCHANGED <<qvars, xvars>>
launch_app_check(r, k, fault) ==
    /\ req[r].pc = (IF k = "Launch" THEN "check_launch" ELSE "check_mount")
    /\ FaultApplies(queue[k], req[r].udid, fault)
    /\ LET a == QueueInfo(k, queue[k], req[r].udid, fault)
       IN /\ queue' = [queue EXCEPT ![k] = a.rows]
          /\ IF a.tag = "NotInQueue"
             THEN /\ req' = [req EXCEPT ![r].pc = IF k = "Launch" THEN "check_mount" ELSE "pairing"]
                  /\ app' = app
             ELSE Respond(r, StatusResponse(k, a.tag), StatusError(k, a))
    /\ UNCHANGED <<mailbox, cache, hstate, loop, orch, last>>
    /\ UNCHANGED <<nextOrdinal, ret, enqLog, phase, xvars>>

\* get_pairing_file and heartbeat::heartbeat_thread, main.rs:537-570: when
\* both succeed the keep-alive task runs and the handler holds its sender
launch_app_heartbeat(r, outcome) ==
    /\ req[r].pc = "pairing"
    /\ IF outcome = "ok"
       THEN /\ req' = [req EXCEPT ![r].pc = "hb"]
            /\ hstate' = [hstate EXCEPT ![r] = "held"]
            /\ loop' = [loop EXCEPT ![r] = [st |-> "running", udid |-> req[r].udid]]
            /\ app' = app
       ELSE /\ Respond(r, "failed", StepError(outcome))
            /\ UNCHANGED <<hstate, loop>>
    /\ UNCHANGED <<mailbox, cache, orch, last>>
    /\ UNCHANGED <<qvars, xvars>>

\* state.send(SendRequest::Store((udid, s))).await, main.rs:555-558
launch_app_Store(r) ==
    /\ req[r].pc = "hb"
    /\ Len(mailbox) < MailLimit
    /\ mailbox' = Append(mailbox, [kind |-> "Store", udid |-> req[r].udid, handle |-> r])
    /\ req' = [req EXCEPT ![r].pc = "run"]
    /\ app' = [app EXCEPT ![r].sent = Append(@, "Store")]
    /\ UNCHANGED <<cache, hstate, loop, orch, last>>
    /\ UNCHANGED <<qvars, xvars>>

\* lockdownd, image mounter and the scan of the image list, main.rs:572-676:
\* the steps are taken in order up to the first that fails, which returns
launch_app_images_through(r, outcome) ==
    /\ req[r].pc = "run"
    /\ req' = [req EXCEPT ![r].pc = IF outcome = "not_mounted" THEN "mount_add" ELSE "kill"]
    /\ app' = [app EXCEPT ![r].error = StepError(outcome)]
    /\ UNCHANGED <<mailbox, cache, hstate, loop, orch, last>>
    /\ UNCHANGED <<qvars, xvars>>
launch_app_images(r, outcome) ==
    /\ req[r].pc = "run"
    /\ IF outcome \in DeviceSteps
       THEN Respond(r, "failed", StepError(outcome))
       ELSE /\ req' = [req EXCEPT ![r].pc = IF outcome = "mounted" THEN "kill" ELSE "mount_add"]
            /\ app' = app
    /\ UNCHANGED <<mailbox, cache, hstate, loop, orch, last>>
    /\ UNCHANGED <<qvars, xvars>>

\* `if !mounted`: mount::add_to_queue and the "added to the queue for image
\* mounting" response, main.rs:676-688
launch_app_mount_add(r, fault, busy) ==
    /\ req[r].pc = "mount_add"
    /\ fault # "none" => busy = 0
    /\ LET a == QueueAdd("Mount", queue["Mount"], nextOrdinal["Mount"], req[r].udid, fault, busy)
       IN /\ Enqueue("Mount", a)
          /\ Respond(r, IF a.tag = "panic" THEN "panic" ELSE "mounting",
                      IF a.tag = "panic" THEN "" ELSE "Your device has been added to the queue")
    /\ UNCHANGED <<mailbox, cache, hstate, loop, orch, last>>
    /\ UNCHANGED <<ret, phase, xvars>>

\* state.send(SendRequest::Kill(udid)).await, main.rs:690-693
launch_app_Kill_skip(r) ==
    /\ req[r].pc = "kill"
    /\ req' = [req EXCEPT ![r].pc = "add"]
    /\ UNCHANGED <<mailbox, cache, hstate, loop, orch, last, app>>
    /\ UNCHANGED <<qvars, xvars>>
launch_app_Kill(r) ==
    /\ req[r].pc = "kill"
    /\ Len(mailbox) < MailLimit
    /\ mailbox' = Append(mailbox, [kind |-> "Kill", udid |-> req[r].udid, handle |-> NoHandle])
    /\ req' = [req EXCEPT ![r].pc = "add"]
    /\ app' = [app EXCEPT ![r].sent = Append(@, "Kill")]
    /\ UNCHANGED <<cache, hstate, loop, orch, last>>
    /\ UNCHANGED <<qvars, xvars>>

\* debug_server::add_to_queue and the final response, main.rs:695-711
launch_app_add(r, fault, busy) ==
    /\ req[r].pc = "add"
    /\ fault # "none" => busy = 0
    /\ LET a == QueueAdd("Launch", queue["Launch"], nextOrdinal["Launch"], req[r].udid, fault, busy)
       IN /\ Enqueue("Launch", a)
          /\ Respond(r, IF a.tag = "Some" THEN "launching"
                        ELSE IF a.tag = "panic" THEN "panic" ELSE "failed",
                      IF a.tag = "None" THEN "Failed to add to queue" ELSE "")
    /\ UNCHANGED <<mailbox, cache, hstate, loop, orch, last>>
    /\ UNCHANGED <<ret, phase, xvars>>

(***************************************************************************)
(* The keep-alive task again, heartbeat.rs:77-90, one await per step: a    *)
(* round is get_marco, then send_polo, then try_recv.  loop_round and      *)
(* loop_error above are these steps taken together.                        *)
(***************************************************************************)
\* number of keep-alive tasks that are followed await by await
MaxTask == 2

\* rounds after the signal that are counted
MaxLate == 2

NoRound == [pc |-> "marco", late |-> 0]

InitRounds == rounds = [h \in Reqs |-> NoRound]

\* `break`: the task ends and drops its receiver
Break(h) ==
    /\ loop' = [loop EXCEPT ![h] = Exited]
    /\ rounds' = [rounds EXCEPT ![h].pc = "end"]

\* heartbeat_client.get_marco(interval).await, heartbeat.rs:78-81
get_marco(h, ok) ==
    /\ loop[h].st = "running"
    /\ rounds[h].pc = "marco"
    /\ IF ok
       THEN /\ rounds' = [rounds EXCEPT ![h].pc = "polo"]
            /\ loop' = loop
       ELSE Break(h)
    /\ UNCHANGED <<req, mailbox, cache, hstate, orch, last>>
    /\ UNCHANGED <<qvars, app, tun, mux, st, reg, ver>>

\* heartbeat_client.send_polo().await, heartbeat.rs:82-84: when it returns
\* Ok the round is complete
send_polo(h, ok) ==
    /\ loop[h].st = "running"
    /\ rounds[h].pc = "polo"
    /\ rounds[h].late < MaxLate
    /\ IF ok
       THEN /\ rounds' = [rounds EXCEPT ![h] =
                             [pc |-> "check",
                              late |-> IF hstate[h] = "sent" THEN @.late + 1 ELSE @.late]]
            /\ loop' = loop
       ELSE Break(h)
    /\ UNCHANGED <<req, mailbox, cache, hstate, orch, last>>
    /\ UNCHANGED <<qvars, app, tun, mux, st, reg, ver>>

\* match receiver.try_recv(), heartbeat.rs:85-89
try_recv(h) ==
    /\ loop[h].st = "running"
    /\ rounds[h].pc = "check"
    /\ IF TryRecv(hstate, h) = "Empty"
       THEN /\ rounds' = [rounds EXCEPT ![h].pc = "marco"]
            /\ loop' = loop
       ELSE Break(h)
    /\ UNCHANGED <<req, mailbox, cache, hstate, orch, last>>
    /\ UNCHANGED <<qvars, app, tun, mux, st, reg, ver>>

(***************************************************************************)
(* tunneld::wait_for_connection, tunneld.rs:6-15.  `tries` is a u8 and the *)
(* loop bound `tries * 2` is computed in u8.                               *)
(***************************************************************************)
\* values of `tries` up to MaxTries are followed, and two whose double does
\* not fit in a u8
MaxTries == 3

U8 == 256

TriesValues == (0..MaxTries) \cup {U8 \div 2, U8 \div 2 + 1}

\* the first poll at which tunneld lists the device; 0: it never does
MaxAppear == 2 * MaxTries + 1

\* `tries * 2` overflows: a build with overflow checks panics, one without
\* wraps
Builds == {"checked", "wrapping"}

\* what the GET of http://127.0.0.1:49151 brings, tunneld.rs:20-48
Answers ==
    {[kind |-> k, keys |-> {}] : k \in {"unreachable", "bad_json", "not_object"}}
        \cup {[kind |-> "object", keys |-> K] : K \in SUBSET Devices}

NoAnswer == [kind |-> "none", keys |-> {}]

\* check_connected(udid), tunneld.rs:17-49, on the answer it got
check_connected(answer, udid) == answer.kind = "object" /\ udid \in answer.keys

\* `tries * 2` in u8
LoopBound(tries) == (tries * 2) % U8

NoWait == [pc |-> "idle", udid |-> NoDevice, tries |-> 0, build |-> "wrapping", bound |-> 0,
           appear |-> 0, polls |-> 0, answer |-> NoAnswer]

InitTun == tun = NoWait

\* the `for` header, tunneld.rs:7: the next poll or, after `bound`
\* iterations, `false`
ForNext(polls, bound) == IF polls < bound THEN "poll" ELSE "false"

\* wait_for_connection(udid, tries) is called and evaluates its loop bound
wait_for_connection(udid, tries, build, appear) ==
    /\ tun.pc = "idle"
    /\ tun' = [pc |-> IF tries * 2 >= U8 /\ build = "checked" THEN "panic"
                      ELSE ForNext(0, LoopBound(tries)),
               udid |-> udid, tries |-> tries, build |-> build,
               bound |-> LoopBound(tries), appear |-> appear, polls |-> 0, answer |-> NoAnswer]
    /\ UNCHANGED <<hbvars, qvars, app, rounds, mux, st, reg, ver>>

\* one check_connected(udid).await, tunneld.rs:8-10; tunneld lists the
\* device from poll `appear` on and not before
wait_poll(answer) ==
    /\ tun.pc = "poll"
    /\ check_connected(answer, tun.udid) <=> (tun.appear # 0 /\ tun.polls + 1 >= tun.appear)
    /\ tun' = [tun EXCEPT !.polls = @ + 1,
                          !.answer = answer,
                          !.pc = IF check_connected(answer, tun.udid) THEN "true" ELSE "sleep"]
    /\ UNCHANGED <<hbvars, qvars, app, rounds, mux, st, reg, ver>>

\* tokio::time::sleep(500 ms).await and the loop header, tunneld.rs:11-14
wait_sleep ==
    /\ tun.pc = "sleep"
    /\ tun' = [tun EXCEPT !.pc = ForNext(tun.polls, tun.bound)]
    /\ UNCHANGED <<hbvars, qvars, app, rounds, mux, st, reg, ver>>

(***************************************************************************)
(* netmuxd::add_device, netmuxd.rs:18-63, one await per step.              *)
(***************************************************************************)
\* calls of add_device that are followed
MaxCalls == 3

\* the largest Result integer netmuxd answers
MaxResult == 3

\* the value under "Result" in the parsed plist
ResultValues ==
    {[type |-> t, value |-> 0] : t \in {"missing", "string"}}
        \cup {[type |-> "integer", value |-> n] : n \in -1..MaxResult}

NoResult == [type |-> "none", value |-> 0]

\* `match parsed.plist.get("Result")`, netmuxd.rs:59-62: as_unsigned() is
\* None for a negative integer and is unwrapped
MatchResult(v) ==
    IF v.type # "integer" THEN "false"
    ELSE IF v.value < 0 THEN "panic"
    ELSE IF v.value = 1 THEN "true" ELSE "false"

NoMux == [pc |-> "idle", udid |-> NoDevice, size16 |-> FALSE, parsed |-> FALSE,
          result |-> NoResult, failed |-> "none", connects |-> 0, calls |-> 0]

InitMux == mux = NoMux

\* add_device(ip, udid) is called and connects, netmuxd.rs:19-21
add_device(udid, ok) ==
    /\ mux.pc \in {"idle", "true", "false"}
    /\ mux.calls < MaxCalls
    /\ mux' = [pc |-> IF ok THEN "connected" ELSE "panic", udid |-> udid, size16 |-> FALSE,
               parsed |-> FALSE, result |-> NoResult,
               failed |-> IF ok THEN "none" ELSE "connect",
               connects |-> 1, calls |-> mux.calls + 1]
    /\ UNCHANGED <<hbvars, qvars, app, rounds, tun, st, reg, ver>>

\* stream.write_all(&request).await.unwrap(), netmuxd.rs:36
add_device_write(ok) ==
    /\ mux.pc = "connected"
    /\ mux' = [mux EXCEPT !.pc = IF ok THEN "written" ELSE "panic",
                          !.failed = IF ok THEN "none" ELSE "write"]
    /\ UNCHANGED <<hbvars, qvars, app, rounds, tun, st, reg, ver>>

\* stream.read_to_end(&mut buf).await.unwrap(), netmuxd.rs:38-41
add_device_read(ok, size16) ==
    /\ mux.pc = "written"
    /\ ~ok => ~size16
    /\ mux' = [mux EXCEPT !.pc = IF ~ok THEN "panic" ELSE IF size16 THEN "rest" ELSE "parse",
                          !.size16 = size16,
                          !.failed = IF ok THEN "none" ELSE "read"]
    /\ UNCHANGED <<hbvars, qvars, app, rounds, tun, st, reg, ver>>

\* `if size == 16`: stream.read(&mut packet).await.unwrap(), netmuxd.rs:42-50
add_device_rest(ok) ==
    /\ mux.pc = "rest"
    /\ mux' = [mux EXCEPT !.pc = IF ok THEN "parse" ELSE "panic",
                          !.failed = IF ok THEN "none" ELSE "read"]
    /\ UNCHANGED <<hbvars, qvars, app, rounds, tun, st, reg, ver>>

\* buffer.try_into() and the match on "Result", netmuxd.rs:52-62
add_device_parse(parsed, v) ==
    /\ mux.pc = "parse"
    /\ ~parsed => v = [type |-> "missing", value |-> 0]
    /\ mux' = [mux EXCEPT !.pc = IF parsed THEN MatchResult(v) ELSE "false",
                          !.parsed = parsed,
                          !.result = v,
                          !.failed = IF ~parsed THEN "parse"
                                     ELSE IF MatchResult(v) = "panic" THEN "result" ELSE "none"]
    /\ UNCHANGED <<hbvars, qvars, app, rounds, tun, st, reg, ver>>

(***************************************************************************)
(* The status handler, main.rs:726-884, one await per step.  One request   *)
(* is followed at a time.                                                  *)
(***************************************************************************)
\* rows that are inserted while status requests are followed
MaxRows == 2

\* `Duration::from_secs(15)`, main.rs:865
Deadline == 15

\* polls of one request that are counted
MaxPolls == Deadline + 2

\* Json(StatusReturn {done, ok, position, in_progress, error}); error is ""
\* for None
StatusReturn(done, ok, position, in_progress, error) ==
    [tag |-> "Some", done |-> done, ok |-> ok, position |-> position,
     in_progress |-> in_progress, error |-> error]

\* `let mut to_return = None`, main.rs:790
None == [tag |-> "None", done |-> FALSE, ok |-> FALSE, position |-> 0,
         in_progress |-> FALSE, error |-> ""]

\* the handler's JoinHandle unwrap met a panicked closure: no response
Panicked == [None EXCEPT !.tag = "panic"]

\* the arms of the two matches, main.rs:791-820 and main.rs:823-861; an arm
\* for NotInQueue leaves to_return as it is
ToReturn(prev, a) ==
    IF a.tag = "Position" THEN StatusReturn(FALSE, TRUE, a.pos, FALSE, "")
    ELSE IF a.tag = "InProgress" THEN StatusReturn(FALSE, TRUE, 0, TRUE, "")
    ELSE IF a.tag = "Error" THEN StatusReturn(TRUE, FALSE, 0, FALSE, a.msg)
    ELSE IF a.tag = "ServerError" THEN StatusReturn(TRUE, FALSE, 0, FALSE, "server error")
    ELSE prev

\* `start_time.elapsed() > 15 s` after `slept` sleeps of one second: true
\* once 15 sleeps are behind, and earlier when the queries took the time
TooLong_never(slept, slow) == FALSE
TooLong(slept, slow) == slept >= Deadline \/ slow

NoStatus == [pc |-> "idle", udid |-> NoDevice, to_return |-> None, slept |-> 0, polls |-> 0,
             consumed |-> {}, resp |-> None]

InitSt == st = NoStatus

\* a status request arrives and looks up its udid
status_lookup(d, outcome) ==
    /\ phase = "serving"
    /\ st.pc \in {"idle", "done"}
    /\ st' = [NoStatus EXCEPT
                !.pc = IF outcome = "found" THEN "launch" ELSE "done",
                !.udid = IF outcome = "found" THEN d ELSE NoDevice,
                !.resp = IF outcome = "found" THEN None
                         ELSE IF outcome = "open"
                              THEN StatusReturn(TRUE, FALSE, 0, FALSE, "Failed to open database: e")
                         ELSE IF outcome = "prepare"
                              THEN StatusReturn(FALSE, FALSE, 0, FALSE, "Failed to open database")
                         ELSE StatusReturn(TRUE, FALSE, 0, FALSE, "No device found in database")]
    /\ UNCHANGED <<hbvars, qvars, app, rounds, tun, mux, reg, ver>>

\* the Error rows a get_queue_info call with answer a deleted from rows
Consumed(k, rows, a) == {[kind |-> k, msg |-> r.error] : r \in rows \ a.rows}

\* debug_server::get_queue_info(&udid).await and its match, main.rs:790-820
status_launch(fault) ==
    /\ st.pc = "launch"
    /\ st.polls < MaxPolls
    /\ FaultApplies(queue["Launch"], st.udid, fault)
    /\ LET a == QueueInfo("Launch", queue["Launch"], st.udid, fault)
       IN /\ queue' = [queue EXCEPT !["Launch"] = a.rows]
          /\ st' = IF a.tag = "panic"
                   THEN [st EXCEPT !.pc = "done", !.resp = Panicked, !.polls = @ + 1]
                   ELSE [st EXCEPT !.pc = "mount",
                                   !.polls = @ + 1,
                                   !.to_return = ToReturn(None, a),
                                   !.consumed = @ \cup Consumed("Launch", queue["Launch"], a)]
    /\ UNCHANGED <<nextOrdinal, ret, enqLog, phase>>
    /\ UNCHANGED <<hbvars, app, rounds, tun, mux, reg, ver>>

\* mount::get_queue_info(&udid).await, its match and the match on
\* to_return, main.rs:823-882
status_mount(fault, slow) ==
    /\ st.pc = "mount"
    /\ FaultApplies(queue["Mount"], st.udid, fault)
    /\ LET a == QueueInfo("Mount", queue["Mount"], st.udid, fault)
           to_return == ToReturn(st.to_return, a)
           consumed == st.consumed \cup Consumed("Mount", queue["Mount"], a)
       IN /\ queue' = [queue EXCEPT !["Mount"] = a.rows]
          /\ st' = IF a.tag = "panic"
                   THEN [st EXCEPT !.pc = "done", !.resp = Panicked]
                   ELSE IF to_return.tag = "None"
                   THEN [st EXCEPT !.pc = "done", !.consumed = consumed,
                                   !.resp = StatusReturn(TRUE, TRUE, 0, FALSE, "")]
                   ELSE IF TooLong(st.slept, slow) \/ to_return.done
                   THEN [st EXCEPT !.pc = "done", !.consumed = consumed,
                                   !.to_return = to_return, !.resp = to_return]
                   ELSE [st EXCEPT !.pc = "sleep", !.consumed = consumed,
                                   !.to_return = to_return]
    /\ UNCHANGED <<nextOrdinal, ret, enqLog, phase>>
    /\ UNCHANGED <<hbvars, app, rounds, tun, mux, reg, ver>>

\* tokio::time::sleep(1 s).await and the next iteration, main.rs:869, 786
status_sleep ==
    /\ st.pc = "sleep"
    /\ st' = [st EXCEPT !.pc = "launch", !.slept = @ + 1]
    /\ UNCHANGED <<hbvars, qvars, app, rounds, tun, mux, reg, ver>>

(***************************************************************************)
(* register, register.rs:50-294, and the devices table.  In the default    *)
(* registration mode the address of a device is computed from its udid     *)
(* (generate_ipv6_from_udid), so the table is modelled as the number of    *)
(* records each udid has.                                                  *)
(***************************************************************************)
\* register requests that are followed
MaxReg == 2

Regs == 1..MaxReg

\* `SELECT udid FROM devices WHERE ip = ?` and one statement_next,
\* main.rs:423-451, for the address of device d
UdidByIp(table, d) == IF table[d] > 0 THEN "found" ELSE "missing"

\* `DELETE FROM devices WHERE udid = ?`, register.rs:92
DeleteDevice(table, d) == [table EXCEPT ![d] = 0]

\* `INSERT INTO devices (udid, ip, last_used) VALUES (?, ?, CURRENT_TIMESTAMP)`,
\* register.rs:274
InsertDevice(table, d) == [table EXCEPT ![d] = @ + 1]

NoReg == [pc |-> "idle", udid |-> NoDevice, resp |-> "none", task |-> "none"]

InitReg == reg = [table |-> [d \in Devices |-> 0], r |-> [i \in Regs |-> NoReg]]

\* the reverse lookup of the first spawn_blocking closure, register.rs:66-119:
\* when a record of the udid is found, the records of the udid are deleted.
\* A database that does not open ends the closure with None; a delete that
\* fails is logged.
register_lookup(i, d, fault) ==
    /\ reg.r[i].pc = "idle"
    /\ IF i = 1 THEN d = "D1" ELSE reg.r[i - 1].pc # "idle"
    /\ fault = "delete" => reg.table[d] > 0
    /\ reg' = [reg EXCEPT !.r[i] = [NoReg EXCEPT !.pc = "config", !.udid = d],
                          !.table = IF fault = "none" /\ reg.table[d] > 0
                                    THEN DeleteDevice(@, d) ELSE @]
    /\ UNCHANGED <<hbvars, qvars, app, rounds, tun, mux, st, ver>>

\* the Wireguard peer and the pairing file, register.rs:121-261: every
\* failure returns an Err before the insert is spawned
register_config(i, ok) ==
    /\ reg.r[i].pc = "config"
    /\ reg' = [reg EXCEPT !.r[i].pc = IF ok THEN "save" ELSE "done",
                          !.r[i].resp = IF ok THEN "none" ELSE "err"]
    /\ UNCHANGED <<hbvars, qvars, app, rounds, tun, mux, st, ver>>

\* `tokio::task::spawn_blocking(move || { .. });`, register.rs:264-286: the
\* JoinHandle is dropped, the closure runs on the blocking pool on its own
register_spawn(i) ==
    /\ reg.r[i].pc = "save"
    /\ reg' = [reg EXCEPT !.r[i].pc = "return", !.r[i].task = "pending"]
    /\ UNCHANGED <<hbvars, qvars, app, rounds, tun, mux, st, ver>>

\* refresh_wireguard and `Ok(client_config.into())`, register.rs:288-292
register_return(i) ==
    /\ reg.r[i].pc = "return"
    /\ reg' = [reg EXCEPT !.r[i].pc = "done", !.r[i].resp = "ok"]
    /\ UNCHANGED <<hbvars, qvars, app, rounds, tun, mux, st, ver>>

\* the spawned closure, register.rs:264-286: a database that does not open,
\* a statement that cannot be prepared or stepped is logged and nothing is
\* inserted
register_insert(i, ok) ==
    /\ reg.r[i].task = "pending"
    /\ reg' = [reg EXCEPT !.r[i].task = IF ok THEN "stored" ELSE "failed",
                          !.table = IF ok THEN InsertDevice(@, reg.r[i].udid) ELSE @]
    /\ UNCHANGED <<hbvars, qvars, app, rounds, tun, mux, st, ver>>

(***************************************************************************)
(* version, main.rs:121-139.                                               *)
(***************************************************************************)
\* the largest number a part of the version string holds, besides the ones
\* that do not parse
MaxPart == 2

\* the most parts the version string has
MaxParts == 4

\* `const VERSION: [u8; 3] = [0, 1, 1]`, main.rs:4
VERSION == <<0, 1, 1>>

\* a part of the split string: a number, a number too large for u8, or -1
\* for text that is not a number
Parts == (0..MaxPart) \cup {U8, -1}

\* `v.parse::<u8>().unwrap_or(0)`
ParseU8(part) == IF part \in 0..(U8 - 1) THEN part ELSE 0

\* `.split('.').map(..).collect::<Vec<u8>>()`: split yields at least one part
Versions == UNION {[1..n -> Parts] : n \in 1..MaxParts}

Parsed(parts) == [i \in 1..Len(parts) |-> ParseU8(parts[i])]

\* `version.get(i).unwrap_or(&0)`
Get(version, i) == IF i <= Len(version) THEN version[i] ELSE 0

\* the loop over VERSION, main.rs:132-136: false at the first component
\* that is smaller than the server's
RECURSIVE VersionLoop(_, _)
VersionLoop(version, i) ==
    IF i > Len(VERSION) THEN TRUE
    ELSE IF Get(version, i) < VERSION[i] THEN FALSE
    ELSE VersionLoop(version, i + 1)

NoVersion == [called |-> FALSE, parts |-> <<>>, ok |-> FALSE]

InitVer == ver = NoVersion

\* the one version request that is followed
version(parts) ==
    /\ ~ver.called
    /\ ver' = [called |-> TRUE, parts |-> parts, ok |-> VersionLoop(Parsed(parts), 1)]
    /\ UNCHANGED <<hbvars, qvars, app, rounds, tun, mux, st, reg>>

(***************************************************************************)
(* Specifications.                                                         *)
(***************************************************************************)
NoApp == [resp |-> "none", sent |-> <<>>, error |-> ""]

InitApp == app = [r \in Reqs |-> NoApp]

Init ==
    /\ InitHBVars /\ InitQVars /\ InitApp /\ InitRounds /\ InitTun /\ InitMux /\ InitSt
    /\ InitReg /\ InitVer

NextHB ==
    \/ \E r \in Reqs, d \in Devices, ok \in BOOLEAN : heartbeat_thread(r, d, ok)
    \/ \E r \in Reqs : send_Store(r)
    \/ \E r \in Reqs : return_early(r)
    \/ \E r \in Reqs : send_Kill(r)
    \/ heartbeat_Store
    \/ heartbeat_Kill
    \/ \E h \in Reqs : loop_round(h)
    \/ \E h \in Reqs : loop_error(h)

SpecHB == Init /\ [][NextHB]_vars

NextQ ==
    \/ \E d \in Devices, f \in AddFaults, b \in 0..MaxBusy : debug_server_add_to_queue(d, f, b)
    \/ \E d \in Devices, f \in AddFaults, b \in 0..1 : mount_add_to_queue(d, f, b)
    \/ \E d \in Devices, f \in Faults : debug_server_get_queue_info(d, f)
    \/ \E d \in Devices, f \in Faults : mount_get_queue_info(d, f)
    \/ \E k \in Kinds : worker_take(k)
    \/ \E k \in Kinds, m \in Msgs : worker_error(k, m)
    \/ \E k \in Kinds : worker_done(k)
    \/ \E f \in AddFaults : mount_empty(f)
    \/ \E f \in AddFaults : debug_server_empty(f)
    \/ main_restart

SpecQ == Init /\ [][NextQ]_vars

\* launch_app requests against the queues and the orchestrator.  The rounds
\* of the keep-alive tasks, which no handler reads, are left to SpecHB.
NextApp ==
    \/ mount_empty("none")
    \/ debug_server_empty("none")
    \/ \E r \in Reqs, d \in Devices, o \in Lookups : launch_app_lookup(r, d, o)
    \/ \E r \in Reqs, k \in Kinds, f \in CheckFaults : launch_app_check(r, k, f)
    \/ \E r \in Reqs, o \in HeartbeatOutcomes : launch_app_heartbeat(r, o)
    \/ \E r \in Reqs : launch_app_Store(r)
    \/ \E r \in Reqs, o \in ImageOutcomes : launch_app_images(r, o)
    \/ \E r \in Reqs, f \in {"none", "open"}, b \in 0..1 : launch_app_mount_add(r, f, b)
    \/ \E r \in Reqs : launch_app_Kill(r)
    \/ \E r \in Reqs, f \in {"none", "open"}, b \in 0..1 : launch_app_add(r, f, b)
    \/ heartbeat_Store
    \/ heartbeat_Kill
    \/ \E k \in Kinds : worker_take(k)
    \/ \E k \in Kinds, m \in Msgs : worker_error(k, m)
    \/ \E k \in Kinds : worker_done(k)

SpecApp == Init /\ [][NextApp]_vars

\* the keep-alive tasks await by await, for the first MaxTask requests
NextLoop ==
    \/ \E r \in 1..MaxTask, d \in Devices, ok \in BOOLEAN : heartbeat_thread(r, d, ok)
    \/ \E r \in Reqs : send_Store(r)
    \/ \E r \in Reqs : return_early(r)
    \/ \E r \in Reqs : send_Kill(r)
    \/ heartbeat_Store
    \/ heartbeat_Kill
    \/ \E h \in Reqs, ok \in BOOLEAN : get_marco(h, ok)
    \/ \E h \in Reqs, ok \in BOOLEAN : send_polo(h, ok)
    \/ \E h \in Reqs : try_recv(h)

SpecLoop == Init /\ [][NextLoop]_vars

\* one call of wait_for_connection
NextTunnel ==
    \/ \E d \in Devices, t \in TriesValues, b \in Builds, a \in 0..MaxAppear :
          wait_for_connection(d, t, b, a)
    \/ \E a \in Answers : wait_poll(a)
    \/ wait_sleep

SpecTunnel == Init /\ [][NextTunnel]_vars

\* calls of netmuxd::add_device
NextMux ==
    \/ \E d \in Devices, ok \in BOOLEAN : add_device(d, ok)
    \/ \E ok \in BOOLEAN : add_device_write(ok)
    \/ \E ok \in BOOLEAN, s \in BOOLEAN : add_device_read(ok, s)
    \/ \E ok \in BOOLEAN : add_device_rest(ok)
    \/ \E p \in BOOLEAN, v \in ResultValues : add_device_parse(p, v)

SpecMux == Init /\ [][NextMux]_vars

\* status requests against the queues, the workers running
NextStatus ==
    \/ mount_empty("none")
    \/ debug_server_empty("none")
    \/ \E d \in Devices : Enqueues < MaxRows /\ debug_server_add_to_queue(d, "none", 0)
    \/ \E d \in Devices : Enqueues < MaxRows /\ mount_add_to_queue(d, "none", 0)
    \/ \E k \in Kinds : worker_take(k)
    \/ \E k \in Kinds, m \in Msgs : worker_error(k, m)
    \/ \E k \in Kinds : worker_done(k)
    \/ \E d \in Devices, o \in Lookups : status_lookup(d, o)
    \/ \E f \in {"none", "open"} : status_launch(f)
    \/ \E f \in {"none", "open"}, slow \in BOOLEAN : status_mount(f, slow)
    \/ status_sleep

SpecStatus == Init /\ [][NextStatus]_vars

\* register requests and the insert tasks they spawn
NextReg ==
    \/ \E i \in Regs, d \in Devices, f \in {"none", "open", "delete"} : register_lookup(i, d, f)
    \/ \E i \in Regs, ok \in BOOLEAN : register_config(i, ok)
    \/ \E i \in Regs : register_spawn(i)
    \/ \E i \in Regs : register_return(i)
    \/ \E i \in Regs, ok \in BOOLEAN : register_insert(i, ok)

SpecReg == Init /\ [][NextReg]_vars

\* version requests
NextVersion == \E parts \in Versions : version(parts)

SpecVersion == Init /\ [][NextVersion]_vars

\* The heartbeat side with the scheduling the runtime gives: the orchestrator
\* task takes every message that waits, a handler that holds a sender sends
\* its Store and then ends one way or the other, and a running keep-alive
\* task gets its rounds.  No request is obliged to arrive.
FairHB ==
    /\ WF_vars(heartbeat_Store)
    /\ WF_vars(heartbeat_Kill)
    /\ \A r \in Reqs : WF_vars(send_Store(r))
    /\ \A r \in Reqs : WF_vars(return_early(r) \/ send_Kill(r))
    /\ \A h \in Reqs : WF_vars(loop_round(h))

SpecHBFair == SpecHB /\ FairHB

(***************************************************************************)
(* Properties of the heartbeat orchestrator.                               *)
(***************************************************************************)
\* the handles whose Store message the orchestrator has processed
Stored ==
    {h \in Reqs : /\ req[h].pc \in {"run", "done"}
                  /\ hstate[h] # "none"
                  /\ \A i \in DOMAIN mailbox : mailbox[i].handle # h}

Signaled(h) == hstate[h] = "sent"

\* the device a handle was made for, as far as a running loop or a running
\* request still tells; NoDevice when both are gone
HandleDevice(h) == IF loop[h].st = "running" THEN loop[h].udid ELSE req[h].udid

\* the orchestrator takes the message at the head of the mailbox
Receives(kind) ==
    /\ mailbox # <<>>
    /\ Head(mailbox).kind = kind
    /\ mailbox' = Tail(mailbox)

\* C1: every stored handle that is not the map's value has been signaled to
\* cancel, the map's value for a device is a handle made for that device,
\* and so per device id at most one handle is stored and not yet signaled.
C1_OneLiveHandle ==
    /\ \A h \in Stored : ~Signaled(h) => \E d \in Devices : cache[d] = h
    /\ \A d \in Devices :
          /\ cache[d] # NoHandle => HandleDevice(cache[d]) \in {d, NoDevice}
          /\ Cardinality({h \in Stored : /\ ~Signaled(h)
                                         /\ (cache[d] = h \/ HandleDevice(h) = d)}) <= 1

\* a handle of a device was superseded and signaled, its successor is the
\* map's value and still live
C1_Witness ==
    /\ last.kind = "Store"
    /\ last.old \in Stored
    /\ Signaled(last.old)
    /\ cache[last.udid] \in Stored \ {last.old}
    /\ ~Signaled(cache[last.udid])

\* C2: at most one keep-alive loop task per device id is alive at any time,
\* from the moment heartbeat_thread spawns it until it exits.
C2_OneLiveLoop ==
    \A d \in Devices : Cardinality({h \in Reqs : loop[h].st = "running" /\ loop[h].udid = d}) <= 1

\* C3: processing Kill for a device id without a handle in the map changes
\* nothing: the map is the same, no handle of any device is signaled, and
\* the orchestrator keeps running.
C3_KillAbsentNoOp ==
    [][(Receives("Kill") /\ cache[Head(mailbox).udid] = NoHandle)
          => (cache' = cache /\ hstate' = hstate /\ loop' = loop /\ orch' = "running")]_vars

\* a Kill for an absent device id was processed while another device had a
\* live handle in the map, and a later message is waiting
C3_Witness ==
    /\ last.kind = "Kill"
    /\ last.old = NoHandle
    /\ \E d \in Devices : d # last.udid /\ cache[d] # NoHandle /\ hstate[cache[d]] = "held"
    /\ orch = "running"

\* C4: processing Store(udid, handle) when the map already has a handle for
\* udid signals the old handle (the send fails, and is ignored, exactly when
\* its loop has exited), makes the new handle the map's value for udid, and
\* touches no handle of another device id.
C4_StoreReplaces ==
    [][(Receives("Store") /\ cache[Head(mailbox).udid] # NoHandle)
          => LET msg == Head(mailbox)
                 old == cache[msg.udid]
             IN /\ hstate'[old] = "sent"
                /\ last'.result = (IF loop[old].st = "exited" THEN "Err" ELSE "Ok")
                /\ cache'[msg.udid] = msg.handle
                /\ \A d \in Devices \ {msg.udid} : cache'[d] = cache[d]
                /\ \A h \in Reqs \ {old} : hstate'[h] = hstate[h]
                /\ orch' = "running"]_vars

\* a Store replaced a handle whose loop had already exited, while another
\* device had a live handle in the map
C4_Witness ==
    /\ last.kind = "Store"
    /\ last.old # NoHandle
    /\ last.result = "Err"
    /\ cache[last.udid] # NoHandle
    /\ \E d \in Devices : d # last.udid /\ cache[d] # NoHandle /\ hstate[cache[d]] = "held"

(***************************************************************************)
(* Properties of the queue store.                                          *)
(***************************************************************************)
\* the add_to_queue call just made on kind k inserted a row
Inserts(k) ==
    /\ Len(enqLog'[k]) = Len(enqLog[k]) + 1
    /\ ret'.ord # 0

Queried(k, d) ==
    /\ ret'.op = "get_queue_info"
    /\ ret'.kind = k
    /\ ret'.udid = d
    /\ ret'.fault = "none"
    /\ InfoStep(k, d, "none")

\* C7: a query without storage failure for a device whose row is pending
\* answers Position(p), p the number of pending rows of the kind with a
\* smaller ordinal.
C7_PendingPosition ==
    [][\A k \in Kinds, d \in Devices :
          (/\ Queried(k, d)
           /\ RowsOf(queue[k], d) # {}
           /\ FirstRow(queue[k], d).status = 0)
          => /\ ret'.tag = "Position"
             /\ ret'.pos = Cardinality({r \in queue[k] :
                                 r.status = 0 /\ r.ordinal < FirstRow(queue[k], d).ordinal})]_vars

\* a pending row was queried behind one pending row and one row that is not
\* pending: the position is 1
C7_Witness ==
    /\ ret.op = "get_queue_info"
    /\ ret.fault = "none"
    /\ ret.tag = "Position"
    /\ ret.pos = 1
    /\ RowsOf(queue[ret.kind], ret.udid) # {}
    /\ LET row == FirstRow(queue[ret.kind], ret.udid)
       IN /\ row.status = 0
          /\ \E r \in queue[ret.kind] : r.ordinal < row.ordinal /\ r.status = 0
          /\ \E r \in queue[ret.kind] : r.ordinal < row.ordinal /\ r.status # 0

C9_BusyOutcome ==
    (ret.op = "add_to_queue" /\ ret.kind = "Launch" /\ ret.fault = "none") =>
        /\ (ret.busy < Tries) => (ret.tag = "Some" /\ ret.ord # 0)
        /\ (ret.busy = Tries) => (ret.tag = "None" /\ ret.ord = 0)

\* C10: add_to_queue of either kind retries a busy insert: it makes at most
\* 5 attempts, and with fewer than 5 busy answers it makes one attempt more
\* than there were busy answers and inserts the row.
C10_RetryEveryKind ==
    (ret.op = "add_to_queue" /\ ret.fault = "none") =>
        /\ ret.attempts <= Tries
        /\ (ret.busy < Tries) => (ret.attempts = ret.busy + 1 /\ ret.ord # 0)
        /\ (ret.busy >= Tries) => ret.attempts = Tries

\* C11: a query without storage failure for a device whose row is in
\* progress answers InProgress, for both queue kinds, and never Position(0),
\* the answer a pending row at the head of the queue gets.
C11_InProgressAnswer ==
    [][\A k \in Kinds, d \in Devices :
          (/\ Queried(k, d)
           /\ RowsOf(queue[k], d) # {}
           /\ FirstRow(queue[k], d).status = 1)
          => ret'.tag = "InProgress"]_vars

\* the step is an empty() call on kind k that meets no storage failure
Emptied(k) ==
    /\ phase \in {"boot", "mount_emptied", "mount_stale"}
    /\ ret'.op = "empty"
    /\ ret'.kind = k
    /\ ret'.fault = "none"
    /\ phase' # phase

C13_NotMountedQueuesMount ==
    [][\A r \in Reqs :
          /\ (req[r].pc = "mount_add" /\ launch_app_mount_add(r, "none", 0))
                => /\ \E row \in queue'["Mount"] \ queue["Mount"] :
                         /\ row.udid = req[r].udid
                         /\ row.status = 0
                         /\ queue'["Mount"] = queue["Mount"] \cup {row}
                   /\ app'[r].resp = "mounting"
                   /\ queue'["Launch"] = queue["Launch"]
                   /\ mailbox' = mailbox
          /\ (req'[r].pc = "mount_add" /\ req[r].pc # "mount_add")
                => launch_app_images(r, "not_mounted")
          /\ app'[r].resp = "mounting" => app'[r].sent = <<"Store">>]_vars

\* the first request, for D1, found no developer image: the only row of the
\* two queues is a pending Mount row of D1, and no Kill was sent
C13_Witness ==
    /\ app[1].resp = "mounting"
    /\ app[1].sent = <<"Store">>
    /\ queue["Launch"] = {}
    /\ queue["Mount"] = {[udid |-> "D1", status |-> 0, error |-> "", ordinal |-> 1]}
    /\ \A i \in DOMAIN mailbox : mailbox[i].kind # "Kill"
    /\ last.kind # "Kill"

\* C14: a launch request that ends with "launching" after enqueueing has
\* sent exactly two messages, its Store and then one Kill; every message a
\* request sends enters the mailbox behind the earlier ones and names the
\* request's device.
C14_OneKillAfterStore ==
    [][\A r \in Reqs :
          /\ app'[r].resp = "launching" => app'[r].sent = <<"Store", "Kill">>
          /\ app'[r].sent # app[r].sent
                => /\ Len(app'[r].sent) = Len(app[r].sent) + 1
                   /\ Len(mailbox') = Len(mailbox) + 1
                   /\ SubSeq(mailbox', 1, Len(mailbox)) = mailbox
                   /\ mailbox'[Len(mailbox')].kind = app'[r].sent[Len(app'[r].sent)]
                   /\ mailbox'[Len(mailbox')].udid = req[r].udid]_vars

\* the first request, for D1, went through: it sent Store and Kill, both
\* were processed, and its Launch row is queued
C14_Witness ==
    /\ app[1].resp = "launching"
    /\ app[1].sent = <<"Store", "Kill">>
    /\ mailbox = <<>>
    /\ last.kind = "Kill"
    /\ last.old = 1
    /\ \E row \in queue["Launch"] : row.udid = "D1"

\* C15: a request that ends by reporting failure has sent no Kill.
C15_FailureSendsNoKill ==
    \A r \in Reqs :
        app[r].resp = "failed" => \A i \in DOMAIN app[r].sent : app[r].sent[i] # "Kill"

\* C16: a queue check of a launch request that meets no storage failure and
\* finds a row of its device ends the request there with the queue's status:
\* nothing was and nothing is sent to the orchestrator, no heartbeat exists
\* for the request, and no row is inserted.
C16_QueuedShortCircuits ==
    [][\A r \in Reqs, k \in Kinds :
          (/\ req[r].pc = (IF k = "Launch" THEN "check_launch" ELSE "check_mount")
           /\ RowsOf(queue[k], req[r].udid) # {}
           /\ launch_app_check(r, k, "none"))
          => /\ req'[r].pc = "done"
             /\ app'[r].resp = (IF FirstRow(queue[k], req[r].udid).status = 2 THEN "failed"
                                ELSE IF k = "Launch" THEN "launch_status" ELSE "mount_status")
             /\ app'[r].sent = <<>>
             /\ hstate'[r] = "none"
             /\ mailbox' = mailbox
             /\ \A o \in Kinds : queue'[o] \subseteq queue[o]
             /\ nextOrdinal' = nextOrdinal]_vars

\* the second request was answered from the mount queue, where the first
\* request's row is in progress, and started no heartbeat
C16_Witness ==
    /\ app[1].resp = "mounting"
    /\ app[2].resp = "mount_status"
    /\ app[2].sent = <<>>
    /\ hstate[2] = "none"
    /\ queue["Launch"] = {}
    /\ queue["Mount"] = {[udid |-> "D1", status |-> 1, error |-> "", ordinal |-> 1]}

\* C17: every cancellation handle a request creates is eventually signaled
\* and no longer a value of the orchestrator's map.
C17_SessionsDestroyed ==
    \A h \in Reqs :
        (hstate[h] = "held") ~> (hstate[h] = "sent" /\ \A d \in Devices : cache[d] # h)

\* C18: a round of a keep-alive loop in which get_marco or send_polo fails,
\* and a round after which try_recv finds the cancellation signal, end the
\* loop; a loop that has ended starts no further round.
C18_LoopEndsOnFirstFailure ==
    [][\A h \in Reqs :
          /\ (loop'[h] # loop[h] /\ loop_error(h)) => loop'[h].st = "exited"
          /\ (loop'[h] # loop[h] /\ hstate[h] = "sent" /\ loop_round(h))
                => loop'[h].st = "exited"
          /\ loop[h].st = "exited" => loop'[h] = loop[h]]_vars

\* a loop ended on a protocol error while its handle is still the map's
\* value, unsignaled, and another loop is running
C18_Witness ==
    \E h \in Reqs, d \in Devices :
        /\ loop[h].st = "exited"
        /\ hstate[h] = "held"
        /\ cache[d] = h
        /\ \E g \in Reqs \ {h} : loop[g].st = "running"

\* C19: a keep-alive task completes at most one round after its handle was
\* signaled, and the try_recv that follows a completed round ends the task
\* when the handle has been signaled by then.
C19_CancelledWithinOneRound ==
    [][\A h \in Reqs :
          /\ rounds'[h].late <= 1
          /\ (loop[h].st = "running" /\ hstate[h] = "sent" /\ try_recv(h))
                => loop'[h].st = "exited"
          /\ rounds'[h].late > rounds[h].late
                => (hstate[h] = "sent" /\ send_polo(h, TRUE))]_vars

\* a task was in a round when its handle was signaled: it completed that
\* round, found the signal and ended
C19_Witness ==
    \E h \in Reqs :
        /\ hstate[h] = "sent"
        /\ loop[h].st = "exited"
        /\ rounds[h] = [pc |-> "end", late |-> 1]

\* C20: a call of wait_for_connection that has returned, and in which
\* tunneld first listed the device at a poll i with 1 <= i <= tries, has
\* returned true after exactly i polls.
C20_TrueAtFirstAppearance ==
    (tun.pc \in {"true", "false", "panic"} /\ tun.appear \in 1..tun.tries)
        => (tun.pc = "true" /\ tun.polls = tun.appear)

\* C21: a call of wait_for_connection during which tunneld never listed the
\* device has returned false after exactly `tries` polls.
C21_FalseAfterTriesPolls ==
    (tun.pc \in {"true", "false", "panic"} /\ tun.appear = 0)
        => (tun.pc = "false" /\ tun.polls = tun.tries)

\* C22: a call of add_device that has ended has returned to its caller:
\* true when the response parsed and its Result is the integer 1, false
\* after any other response and after any transport failure; and it
\* connected once.
C22_SuccessIffResultOne ==
    mux.pc \in {"true", "false", "panic"}
        => /\ mux.pc # "panic"
           /\ mux.pc = "true" <=> (/\ mux.failed = "none"
                                   /\ mux.parsed
                                   /\ mux.result = [type |-> "integer", value |-> 1])
           /\ mux.connects = 1

\* C23: no launch_app request ends in a panic of its handler: every request
\* that has ended has returned a response.
C23_NoHandlerPanic ==
    \A r \in Reqs : app[r].resp # "panic"

\* the row of kind k that the i-th successful add_to_queue inserted
Enqueued(k, i) == {r \in queue[k] : r.ordinal = enqLog[k][i]}

\* the position get_queue_info reports for the device of row r
Reported(k, r) == QueueInfo(k, queue[k], r.udid, "none")

C25_FailureAbortsPipeline ==
    [][\A r \in Reqs :
          /\ \A step \in DeviceSteps :
                (req[r].pc = "run" /\ req'[r].pc # "run" /\ launch_app_images(r, step))
                   => /\ req'[r].pc = "done"
                      /\ app'[r].resp = "failed"
                      /\ app'[r].error = StepError(step)
                      /\ app'[r].error # ""
                      /\ app'[r].sent = app[r].sent
                      /\ mailbox' = mailbox
                      /\ queue' = queue
          /\ \A step \in {"pairing", "heartbeat"} :
                (req[r].pc = "pairing" /\ req'[r].pc # "pairing"
                 /\ launch_app_heartbeat(r, step))
                   => /\ req'[r].pc = "done"
                      /\ app'[r].resp = "failed"
                      /\ app'[r].error = StepError(step)
                      /\ app'[r].sent = <<>>
                      /\ hstate'[r] = "none"
                      /\ mailbox' = mailbox
                      /\ queue' = queue
          /\ req[r].pc = "done" => (req'[r] = req[r] /\ app'[r] = app[r])]_vars

\* the first request failed to connect to the image mounter: its Store was
\* processed, no Kill was sent and no row was inserted
C25_Witness ==
    /\ app[1].resp = "failed"
    /\ app[1].error = "Failed to connect to image_mounter: e"
    /\ app[1].sent = <<"Store">>
    /\ cache["D1"] = 1
    /\ mailbox = <<>>
    /\ \A k \in Kinds : queue[k] = {}
    /\ enqLog = [k \in Kinds |-> <<>>]

\* what one message does to a map from udid to sender when it is applied on
\* its own: Store inserts, Kill removes
Applied(c, m) ==
    [d \in Devices |-> IF d # m.udid THEN c[d]
                       ELSE IF m.kind = "Store" THEN m.handle ELSE NoHandle]

\* the map after the messages of a sequence are applied one after the other
RECURSIVE AppliedAll(_, _)
AppliedAll(c, msgs) ==
    IF msgs = <<>> THEN c ELSE AppliedAll(Applied(c, Head(msgs)), Tail(msgs))

\* C26: the mailbox changes only by a send, which puts one message behind
\* all that wait, or by the orchestrator, which takes the message at the
\* head and applies it to the map; the map changes in no other step.  So
\* the map the waiting messages lead to is the one that results from
\* applying every message sent so far in the order of arrival.
C26_ArrivalOrder ==
    [][/\ mailbox' # mailbox
          => \/ /\ Len(mailbox') = Len(mailbox) + 1
                /\ SubSeq(mailbox', 1, Len(mailbox)) = mailbox
                /\ cache' = cache
                /\ AppliedAll(cache', mailbox')
                      = Applied(AppliedAll(cache, mailbox), mailbox'[Len(mailbox')])
             \/ /\ mailbox # <<>>
                /\ mailbox' = Tail(mailbox)
                /\ cache' = Applied(cache, Head(mailbox))
                /\ AppliedAll(cache', mailbox') = AppliedAll(cache, mailbox)
       /\ cache' # cache => (mailbox # <<>> /\ mailbox' = Tail(mailbox))]_vars

\* two requests sent at the same time: the Store of the second waits behind
\* the Kill of the first, both for the device whose sender the map holds;
\* applied in this order they leave the second sender in the map
C26_Witness ==
    /\ Len(mailbox) = 2
    /\ mailbox[1].kind = "Kill"
    /\ mailbox[2].kind = "Store"
    /\ mailbox[1].udid = mailbox[2].udid
    /\ cache[mailbox[1].udid] \notin {NoHandle, mailbox[2].handle}
    /\ AppliedAll(cache, mailbox)[mailbox[1].udid] = mailbox[2].handle

\* the success flag of a launch_app response
Ok(resp) == resp \in {"launch_status", "mount_status", "mounting", "launching"}

\* C27: every response a launch_app request has returned has ok true or ok
\* false, and with ok false its error field is a non-empty text; every
\* ok: false return of get_apps has a non-empty error text.
C27_FailureHasMessage ==
    /\ \A r \in Reqs :
          app[r].resp \notin {"none", "panic"}
             => /\ Ok(app[r].resp) \/ app[r].resp = "failed"
                /\ ~Ok(app[r].resp) => app[r].error # ""
    /\ \A f \in GetAppsFailures : GetAppsError(f) # ""

\* the second request was answered ok: false with the message of the Error
\* row that the first request's mount had left
C27_Witness ==
    /\ app[1].resp = "mounting"
    /\ app[2].resp = "failed"
    /\ app[2].error \in Msgs
    /\ app[2].sent = <<>>

(***************************************************************************)
(* Properties of the status handler.                                       *)
(***************************************************************************)
\* the row get_queue_info of kind k finds for the device of the request is
\* in Error status
ErrorRow(k) ==
    /\ RowsOf(queue[k], st.udid) # {}
    /\ FirstRow(queue[k], st.udid).status = 2

\* C28: a status request that finds no row of its device in either queue
\* returns done, ok at once; one whose query finds a row in Error status
\* returns done, not ok and the message of that row, without a sleep.
C28_TerminalReturnsAtOnce ==
    [][/\ \A slow \in BOOLEAN :
             (/\ st.pc = "mount"
              /\ st.to_return.tag = "None"
              /\ RowsOf(queue["Mount"], st.udid) = {}
              /\ status_mount("none", slow))
             => (st'.pc = "done" /\ st'.resp = StatusReturn(TRUE, TRUE, 0, FALSE, ""))
       /\ \A slow \in BOOLEAN :
             (/\ st.pc = "mount"
              /\ ErrorRow("Mount")
              /\ status_mount("none", slow))
             => /\ st'.pc = "done"
                /\ st'.resp = StatusReturn(TRUE, FALSE, 0, FALSE,
                                           FirstRow(queue["Mount"], st.udid).error)
       /\ (st.pc = "launch" /\ ErrorRow("Launch") /\ status_launch("none"))
             => st'.to_return = StatusReturn(TRUE, FALSE, 0, FALSE,
                                             FirstRow(queue["Launch"], st.udid).error)
       /\ \A slow \in BOOLEAN :
             (/\ st.pc = "mount"
              /\ st.to_return.tag = "Some"
              /\ st.to_return.done
              /\ st.to_return.error \in Msgs
              /\ status_mount("none", slow))
             => (st'.pc = "done" /\ st'.resp = st.to_return)]_vars

\* C29: a status request makes at most 16 rounds of queries, one at the
\* start and one after each of at most 15 sleeps of a second: the round
\* after the 15th sleep returns whatever the queries answered.
C29_PollsBounded ==
    [][/\ st'.polls <= Deadline + 1
       /\ st'.slept <= Deadline
       /\ st'.pc = "sleep" => (st'.slept < Deadline /\ ~st'.to_return.done)
       /\ st'.slept > st.slept => (st.pc = "sleep" /\ st'.slept = st.slept + 1)
       /\ (st.pc = "mount" /\ st.slept >= Deadline /\ st'.pc # st.pc)
             => st'.pc = "done"]_vars

\* the device stayed queued: the request slept 15 times and returned the
\* position it found in its 16th round
C29_Witness ==
    /\ st.pc = "done"
    /\ st.polls = Deadline + 1
    /\ st.slept = Deadline
    /\ st.resp.tag = "Some"
    /\ st.resp.ok
    /\ ~st.resp.done

\* C30: a status request that has returned a response carries in it the
\* message of every Error row its queries deleted.
C30_ConsumedIsReported ==
    (st.pc = "done" /\ st.resp.tag = "Some")
        => \A c \in st.consumed : st.resp.error = c.msg


(***************************************************************************)
(* Properties of concurrent requests for one device.                       *)
(***************************************************************************)
\* C31: a Kill never removes and signals the handle a request Stored while
\* that request is still running: the handle the orchestrator removes for a
\* Kill belongs to a request that has ended, the sender of the Kill.
C31_KillSparesRunningRequest ==
    [][(Receives("Kill") /\ cache[Head(mailbox).udid] # NoHandle)
          => req[cache[Head(mailbox).udid]].pc = "done"]_vars

\* C32: whatever the interleaving of the launch_app requests, each queue
\* kind holds at most one row per device id.
C32_OneRowPerDevice ==
    \A k \in Kinds, d \in Devices : Cardinality(RowsOf(queue[k], d)) <= 1

\* C33: a launch_app request answers mounting: true only when its call of
\* mount::add_to_queue inserted a row of its device into mount_queue.
C33_MountingOnlyIfInserted ==
    [][\A r \in Reqs :
          (req[r].pc = "mount_add" /\ app'[r].resp = "mounting")
             => \E row \in queue'["Mount"] \ queue["Mount"] : row.udid = req[r].udid]_vars

\* C34: while a row stays pending, the number of pending rows ahead of it
\* never grows, and neither does the position get_queue_info reports for it
\* while it is the oldest row of its device.
C34_PositionNeverIncreases ==
    [][queue' # queue =>
         \A k \in Kinds : \A e \in queue[k] \cap queue'[k] :
            e.status = 0 =>
               /\ CountPendingBefore(queue'[k], e.ordinal) <= CountPendingBefore(queue[k], e.ordinal)
               /\ (FirstRow(queue[k], e.udid) = e /\ FirstRow(queue'[k], e.udid) = e)
                     => QueueInfo(k, queue'[k], e.udid, "none").pos
                           <= QueueInfo(k, queue[k], e.udid, "none").pos]_vars

\* a query answered Position(1) for a device whose row is still pending, a
\* row was enqueued behind it since, and the row ahead of it has left the
\* pending state: the position reported for it now is 0
C34_Witness ==
    /\ ret.op = "get_queue_info"
    /\ ret.fault = "none"
    /\ ret.tag = "Position"
    /\ ret.pos = 1
    /\ RowsOf(queue[ret.kind], ret.udid) # {}
    /\ LET row == FirstRow(queue[ret.kind], ret.udid)
       IN /\ row.status = 0
          /\ Reported(ret.kind, row).tag = "Position"
          /\ Reported(ret.kind, row).pos = 0
          /\ \E r \in queue[ret.kind] : r.ordinal < row.ordinal /\ r.status # 0
          /\ \E r \in queue[ret.kind] : r.ordinal > row.ordinal /\ r.status = 0

\* C35: a get_queue_info call, with or without a storage failure, leaves the
\* table of the other kind as it is and deletes at most one row of its own
\* kind, the Error row it answers for; a call for a device without rows or
\* with a pending or in-progress row deletes nothing.
C35_QueryFrame ==
    [][(/\ queue' # queue
        /\ ret'.op = "get_queue_info"
        /\ InfoStep(ret'.kind, ret'.udid, ret'.fault))
          => LET k == ret'.kind
                 d == ret'.udid
             IN /\ \A j \in Kinds \ {k} : queue'[j] = queue[j]
                /\ ret'.tag = "Error"
                /\ RowsOf(queue[k], d) # {}
                /\ FirstRow(queue[k], d).status = 2
                /\ queue'[k] = queue[k] \ {FirstRow(queue[k], d)}]_vars

\* the second row of a kind was reported as Error and purged while the
\* first row of the kind and a row of the other kind were in the tables:
\* both are still there
C35_Witness ==
    /\ ret.op = "get_queue_info"
    /\ ret.fault = "none"
    /\ ret.tag = "Error"
    /\ nextOrdinal[ret.kind] = 3
    /\ {r.ordinal : r \in queue[ret.kind]} = {1}
    /\ \A j \in Kinds \ {ret.kind} : queue[j] # {}

\* C36: the value a Launch add_to_queue returns for the row it inserted is
\* the number of pending rows with a smaller ordinal than that row, also
\* when the device has an older row in launch_queue.
C36_ReturnedIsPositionOfNewRow ==
    [][(/\ enqLog'["Launch"] # enqLog["Launch"]
        /\ ret'.op = "add_to_queue"
        /\ ret'.kind = "Launch"
        /\ ret'.tag = "Some")
          => ret'.pos = Cardinality({r \in queue'["Launch"] :
                                        r.status = 0 /\ r.ordinal < ret'.ord})]_vars

(***************************************************************************)
(* Properties of register and version.                                     *)
(***************************************************************************)
\* C37: at the moment register answers Ok for a device, the lookup of the
\* device by its address finds a record; and the devices table never holds
\* more than one record of a udid.
C37_RegisteredBeforeResponse ==
    [][/\ \A i \in Regs :
             (reg.r[i].pc = "return" /\ register_return(i))
                => UdidByIp(reg'.table, reg.r[i].udid) = "found"
       /\ \A d \in Devices : reg'.table[d] <= 1]_vars

\* C38: version answers ok exactly when the client's version, its first
\* three parts with a missing or unparsable part read as 0, is at least
\* VERSION in the lexicographic order of (major, minor, patch).
C38_OkIffLexicographicGE ==
    ver.called =>
        LET c == [i \in 1..3 |-> Get(Parsed(ver.parts), i)]
            ge == \/ c[1] > VERSION[1]
                  \/ c[1] = VERSION[1] /\ c[2] > VERSION[2]
                  \/ c[1] = VERSION[1] /\ c[2] = VERSION[2] /\ c[3] >= VERSION[3]
        IN ver.ok <=> ge

\* C39: for every attempt count the loop bound of wait_for_connection is
\* computed without overflow: the call does not abort, the bound is twice
\* the attempt count, and a call that returned false has polled at least
\* `tries` times.
C39_BudgetWithoutOverflow ==
    tun.pc # "idle"
        => /\ tun.pc # "panic"
           /\ tun.bound = 2 * tun.tries
           /\ tun.pc = "false" => tun.polls >= tun.tries

====
